---- MODULE Spec2Model ----
(***************************************************************************)
(* mini-redis-with-go: the concurrent Store (map guarded by one RWMutex),  *)
(* its TTL handling (Expire, TTL, lazy deletion in Get), the Janitor       *)
(* (StartJanitor / cleanup) and the dispatcher (Execute).                   *)
(*                                                                         *)
(* Every critical section of the code is two steps: the lock acquisition   *)
(* and the body together with the release.  Time is a global clock of      *)
(* ticks; TicksPerSecond ticks make one second.                            *)
(***************************************************************************)
EXTENDS Integers, Sequences, FiniteSets, TLC

\* ---------------------------------------------------------------- bounds
NumTasks == 2
NumKeys == 2
NumSharedKeys == 1
NumVals == 1
MaxSeconds == 6
SeqSeconds == 4
MaxArgs == 3
LongSeconds == 10
TicksPerSecond == 2

\* ------------------------------------------------------ program constants
DefaultTTLSeconds == 5
JanitorSeconds == 3
ZeroTime == 0

TaskNames == <<"t1", "t2", "t3", "t4">>
KeyNames == <<"a", "b", "c", "d">>
ValNames == <<"x", "y", "z", "w">>

Tasks == {TaskNames[i] : i \in 1..NumTasks}
Keys == {KeyNames[i] : i \in 1..NumKeys}

\* The keys the concurrent clients of Spec contend on.
SharedKeys == {KeyNames[i] : i \in 1..NumSharedKeys}
Vals == {ValNames[i] : i \in 1..NumVals}

Janitor == "janitor"
NoOne == "none"

\* Seconds a direct caller passes to Expire.
ExpireSeconds == {0, 1}

\* ------------------------------------------------------- response strings
OK == "OK"
ErrNotExist == "ERR data doesn't exist"
ErrExpired == "ERR data expired"
ErrNotFound == "ERR data not found"
MinusOne == "-1"
NeverExpires == "Data never expires"
NoRet == "-"

VARIABLES
    now,        \* the wall clock, in ticks
    data,       \* Store.data: a function from the keys present to StoreData
    writer,     \* Store.mu: who holds the exclusive lock, or NoOne
    readers,    \* Store.mu: the tasks holding the shared lock
    pc,         \* pc[t]: where task t is in its current Store call
    call,       \* call[t]: the Store call task t is executing
    sd,         \* sd[t]: Get's local storeData (its value; Get reads nothing else of it)
    tv,         \* tv[t]: TTL's local value (its expiresAt; TTL reads nothing else of it)
    ret,        \* ret[t]: what the Store call returned
    req,        \* req[t]: the command line handleConnection passed to Execute
    resp,       \* resp[t]: Execute's response
    tick,       \* the ticker's channel holds a tick
    jpc,        \* where the janitor goroutine is
    jnow,       \* cleanup's local now
    hist,       \* history: per key, the last Set's write and what touched the key since
    gone,       \* history: per key, "del"/"expired" observed since the last Set's write
    stale       \* history: stale[t] iff the entry t's Get read was past its expiration

store == <<data, writer, readers>>
locals == <<sd, tv>>
conn == <<req, resp>>
clock == <<now, tick>>
janitor == <<jpc, jnow>>
history == <<hist, gone, stale>>

vars == <<now, data, writer, readers, pc, call, sd, tv, ret, req, resp, tick, jpc, jnow,
          hist, gone, stale>>

\* ------------------------------------------------------------------ time
Seconds(n) == n * TicksPerSecond

IsZero(t) == t = ZeroTime

\* The instant main starts: the construction of the Store and StartJanitor.
StartTime == ZeroTime + 1

\* ticker.C delivers a tick every interval after StartJanitor.
IsTickTime(t) == t > StartTime /\ (t - StartTime) % Seconds(JanitorSeconds) = 0

\* ------------------------------------------------------------- StoreData
StoreData(v, e) == [value |-> v, expiresAt |-> e]

NoValue == ""

NoData == [ok |-> FALSE, value |-> NoValue, expiresAt |-> ZeroTime]

\* v, ok := s.data[key]
Lookup(d, k) ==
    IF k \in DOMAIN d
    THEN [ok |-> TRUE, value |-> d[k].value, expiresAt |-> d[k].expiresAt]
    ELSE NoData

\* s.data[key] = sdv
MapPut(d, k, sdv) == [x \in DOMAIN d \cup {k} |-> IF x = k THEN sdv ELSE d[x]]

\* delete(s.data, key)
MapDelete(d, k) == [x \in DOMAIN d \ {k} |-> d[x]]

\* ------------------------------------------------- the Store's operations
\* Set's literal StoreData{value: value}: expiresAt is the zero time.
SetEntry(v) == StoreData(v, ZeroTime)

\* value.expiresAt = time.Now().Add(time.Second * time.Duration(seconds))
ExpireEntry(e, t, seconds) == StoreData(e.value, t + Seconds(seconds))

\* time.Until(value.expiresAt)
Until(e, t) == e - t

\* (mutant) TTL's test with the expiration instant itself still live
IsExpiredStrict(diff) == diff < 0

\* TTL's test for a dead entry: diff <= 0
IsExpired(diff) == diff <= 0

\* strconv.Itoa(int(diff.Seconds())): whole seconds, truncated
RemainingSeconds(diff) == ToString(diff \div TicksPerSecond)

\* (mutant) cleanup's test with the negation of IsZero lost
SweepRemovesOnlyZero(e, t) == IsZero(e.expiresAt) /\ t > e.expiresAt

\* cleanup's test: !v.expiresAt.IsZero() && now.After(v.expiresAt)
SweepRemoves(e, t) == ~IsZero(e.expiresAt) /\ t > e.expiresAt

\* cleanup's loop over the whole map
Sweep(d, t) ==
    LET keep == {k \in DOMAIN d : ~SweepRemoves(d[k], t)}
    IN  [k \in keep |-> d[k]]

\* (mutant) a Set whose write loses the entries of the other keys
SetEffectLosing(d, k, v) == [x \in {k} |-> SetEntry(v)]

\* Set's write: s.data[key] = StoreData{value: value}
SetEffect(d, k, v) == MapPut(d, k, SetEntry(v))

\* (mutant) an Expire that always applies the default TTL
ExpireEffectDefault(d, k, e, t, seconds) == MapPut(d, k, ExpireEntry(e, t, DefaultTTLSeconds))

\* Expire's write for a key it found: value.expiresAt = ...; s.data[key] = value
ExpireEffect(d, k, e, t, seconds) == MapPut(d, k, ExpireEntry(e, t, seconds))

\* (mutant) Del that empties the map
DelEffectAll(d, k) == << >>

\* (mutant) Del that deletes nothing
DelEffectNoop(d, k) == d

\* Del's delete(s.data, key)
DelEffect(d, k) == MapDelete(d, k)

\* (mutant) TTL that reports the expiry and leaves the entry in the table
TTLDeleteEffectNoop(d, k) == d

\* TTL's delete(s.data, key) for the entry it saw expired
TTLDeleteEffect(d, k) == MapDelete(d, k)

\* Get's use of TTL's answer: "-1" means expired, anything else is live
GetResult(local, ttl) == IF ttl = MinusOne THEN ErrExpired ELSE local

\* ------------------------------------------------------------ the RWMutex
\* (mutant) a Lock that does not wait for the readers
CanLockIgnoringReaders == writer = NoOne

CanLock == writer = NoOne /\ readers = {}
CanRLock == writer = NoOne

\* Where a task is between s.mu.Lock() and the unlock.
ExclusivePcs == {"set_write", "expire_body", "ttl_delete", "del_body", "exists_body"}

\* Where a task is between s.mu.RLock() and s.mu.RUnlock().
SharedPcs == {"get_read", "ttl_read"}

\* Where a task is about to call s.mu.Lock() or s.mu.RLock().
LockRequestPcs == {"set_lock", "expire_lock", "ttl_lock", "del_lock", "exists_lock",
                   "get_rlock", "ttl_rlock"}

\* --------------------------------------------------------------- history
\* hist[k] records the last write of k by a Set: who wrote (by), the value (val),
\* the expiration instant that Set's own Expire established (exp, ZeroTime before),
\* and what has accessed k since that write (touch):
\*   "none"   nothing but the Set itself;
\*   a task   only that task's Get, still running, called at or after exp;
\*   "read"   only reads (Get, TTL, Exists, and the deletion a read decides on);
\*   "write"  a Del, or an Expire that is not the writing Set's own.
NoHist == [by |-> NoOne, val |-> "", exp |-> ZeroTime, touch |-> "none"]

\* Set's write of k by t: a new entry, nothing has touched it yet.
HistWrite(t, k, v) ==
    /\ hist' = [hist EXCEPT ![k] =
                  [by |-> t, val |-> v, exp |-> ZeroTime, touch |-> "none"]]
    /\ gone' = [gone EXCEPT ![k] = {}]

\* t calls c: a Get of an untouched entry, called at or after its expiration
\* instant, is the first Get after the TTL has elapsed.
HistCall(t, c) ==
    IF /\ c.op = "Get"
       /\ hist[c.key].touch = "none"
       /\ ~IsZero(hist[c.key].exp)
       /\ now >= hist[c.key].exp
    THEN hist' = [hist EXCEPT ![c.key].touch = t]
    ELSE hist' = hist

TouchAfterRead(h, t) ==
    CASE h.touch = "write" -> "write"
      [] h.touch = t -> t
      [] OTHER -> "read"

\* A read of k by t.
HistRead(t, k) ==
    hist' = [hist EXCEPT ![k].touch = TouchAfterRead(hist[k], t)]

\* A Del or Expire on k that is not the Expire of the Set that wrote the entry:
\* nothing more is recorded about that Set.
HistDisturb(k) == hist' = [hist EXCEPT ![k] = [NoHist EXCEPT !.touch = "write"]]

\* Expire on k by t, at the clock value now.
HistExpire(t, k, found) ==
    IF /\ call[t].op = "Set"
       /\ hist[k].by = t
       /\ hist[k].exp = ZeroTime
       /\ found
    THEN hist' = [hist EXCEPT ![k].exp = now + Seconds(DefaultTTLSeconds)]
    ELSE HistDisturb(k)

\* t's call is over: its Get no longer counts as running.
HistLeave(t) ==
    hist' = [k \in Keys |->
               IF hist[k].touch = t THEN [hist[k] EXCEPT !.touch = "read"] ELSE hist[k]]

\* Get's read of k by t: was the entry it read already past its expiration?
HistGetRead(t, e) ==
    stale' = [stale EXCEPT ![t] = e.ok /\ ~IsZero(e.expiresAt) /\ e.expiresAt <= now]

\* ----------------------------------------------------------------- calls
NoCall == [op |-> "none", key |-> "", val |-> "", secs |-> 0]

NoReq == [cmd |-> "", args |-> << >>]

StoreCalls(K) ==
    {[op |-> "Set", key |-> k, val |-> v, secs |-> 0] : k \in K, v \in Vals}
    \cup {[op |-> o, key |-> k, val |-> "", secs |-> 0] :
            o \in {"Get", "Del", "Exists", "TTL"}, k \in K}
    \cup {[op |-> "Expire", key |-> k, val |-> "", secs |-> s] :
            k \in K, s \in ExpireSeconds}

FirstPc(op) ==
    CASE op = "Set" -> "set_lock"
      [] op = "Get" -> "get_rlock"
      [] op = "Del" -> "del_lock"
      [] op = "Exists" -> "exists_lock"
      [] op = "Expire" -> "expire_lock"
      [] op = "TTL" -> "ttl_rlock"

Init ==
    /\ now = StartTime
    /\ data = << >>
    /\ writer = NoOne
    /\ readers = {}
    /\ pc = [t \in Tasks |-> "idle"]
    /\ call = [t \in Tasks |-> NoCall]
    /\ sd = [t \in Tasks |-> NoValue]
    /\ tv = [t \in Tasks |-> ZeroTime]
    /\ ret = [t \in Tasks |-> NoRet]
    /\ req = [t \in Tasks |-> NoReq]
    /\ resp = [t \in Tasks |-> NoRet]
    /\ tick = FALSE
    /\ jpc = "wait"
    /\ jnow = ZeroTime
    /\ hist = [k \in Keys |-> NoHist]
    /\ gone = [k \in Keys |-> {}]
    /\ stale = [t \in Tasks |-> FALSE]

\* Task t calls one operation of the Store, on a key of K.
Call(t, K) ==
    /\ pc[t] = "idle"
    /\ \E c \in StoreCalls(K) :
        /\ call' = [call EXCEPT ![t] = c]
        /\ pc' = [pc EXCEPT ![t] = FirstPc(c.op)]
        /\ HistCall(t, c)
    /\ UNCHANGED <<store, locals, ret, conn, clock, janitor, gone, stale>>

\* The caller takes the result of its Store call.
Return(t) ==
    /\ pc[t] = "done"
    /\ req[t] = NoReq
    /\ pc' = [pc EXCEPT ![t] = "idle"]
    /\ call' = [call EXCEPT ![t] = NoCall]
    /\ ret' = [ret EXCEPT ![t] = NoRet]
    /\ HistLeave(t)
    /\ stale' = [stale EXCEPT ![t] = FALSE]
    /\ UNCHANGED <<store, locals, conn, clock, janitor, gone>>

\* s.mu.Lock()
Lock(t, from, to) ==
    /\ pc[t] = from
    /\ CanLock
    /\ writer' = t
    /\ pc' = [pc EXCEPT ![t] = to]
    /\ UNCHANGED <<data, readers, call, locals, ret, conn, clock, janitor, history>>

\* s.mu.RLock()
RLock(t, from, to) ==
    /\ pc[t] = from
    /\ CanRLock
    /\ readers' = readers \cup {t}
    /\ pc' = [pc EXCEPT ![t] = to]
    /\ UNCHANGED <<data, writer, call, locals, ret, conn, clock, janitor, history>>

\* The Store call ends with result r.
Finish(t, r) ==
    /\ pc' = [pc EXCEPT ![t] = "done"]
    /\ ret' = [ret EXCEPT ![t] = r]
    /\ sd' = [sd EXCEPT ![t] = NoValue]
    /\ tv' = [tv EXCEPT ![t] = ZeroTime]

\* ------------------------------------------------------------------- Set
SetLock(t) == Lock(t, "set_lock", "set_write")

\* The write and the unlock; Set goes on to call Expire(key, 5).
SetWrite(t) ==
    /\ pc[t] = "set_write"
    /\ writer = t
    /\ data' = SetEffect(data, call[t].key, call[t].val)
    /\ writer' = NoOne
    /\ pc' = [pc EXCEPT ![t] = "expire_lock"]
    /\ HistWrite(t, call[t].key, call[t].val)
    /\ UNCHANGED <<readers, call, locals, ret, conn, clock, janitor, stale>>

\* ---------------------------------------------------------------- Expire
ExpireLock(t) == Lock(t, "expire_lock", "expire_body")

\* Set calls Expire(key, 5); a direct caller passes its own seconds.
ExpireSecondsOf(c) == IF c.op = "Set" THEN DefaultTTLSeconds ELSE c.secs

\* Set ignores what Expire returned and returns "OK".
ExpireReturn(c, r) == IF c.op = "Set" THEN OK ELSE r

ExpireBody(t) ==
    /\ pc[t] = "expire_body"
    /\ writer = t
    /\ LET k == call[t].key
           value == Lookup(data, k)
       IN  /\ IF ~value.ok
              THEN /\ data' = data
                   /\ Finish(t, ExpireReturn(call[t], ErrNotFound))
              ELSE /\ data' = ExpireEffect(data, k, value, now, ExpireSecondsOf(call[t]))
                   /\ Finish(t, ExpireReturn(call[t], OK))
           /\ HistExpire(t, k, value.ok)
    /\ writer' = NoOne
    /\ UNCHANGED <<readers, call, conn, clock, janitor, gone, stale>>

\* ------------------------------------------------------------------- TTL
\* What TTL's caller gets: Get turns the answer into its own result.
TTLReturn(c, local, r) == IF c.op = "Get" THEN GetResult(local, r) ELSE r

TTLFinish(t, r) ==
    /\ Finish(t, TTLReturn(call[t], sd[t], r))
    /\ gone' = IF TTLReturn(call[t], sd[t], r) = ErrExpired /\ call[t].op = "Get"
               THEN [gone EXCEPT ![call[t].key] = @ \cup {"expired"}]
               ELSE gone

TTLRLock(t) == RLock(t, "ttl_rlock", "ttl_read")

\* (mutant) a TTL that keeps the shared lock after its read
TTLReadHolding(t) ==
    /\ pc[t] = "ttl_read"
    /\ t \in readers
    /\ readers' = readers
    /\ LET value == Lookup(data, call[t].key)
       IN  IF ~value.ok
           THEN TTLFinish(t, MinusOne)
           ELSE IF IsZero(value.expiresAt)
           THEN TTLFinish(t, NeverExpires)
           ELSE /\ tv' = [tv EXCEPT ![t] = value.expiresAt]
                /\ pc' = [pc EXCEPT ![t] = "ttl_diff"]
                /\ UNCHANGED <<sd, ret, gone>>
    /\ HistRead(t, call[t].key)
    /\ UNCHANGED <<data, writer, call, conn, clock, janitor, stale>>

\* The read under the shared lock, the unlock, and the two early returns.
TTLRead(t) ==
    /\ pc[t] = "ttl_read"
    /\ t \in readers
    /\ readers' = readers \ {t}
    /\ LET value == Lookup(data, call[t].key)
       IN  IF ~value.ok
           THEN TTLFinish(t, MinusOne)
           ELSE IF IsZero(value.expiresAt)
           THEN TTLFinish(t, NeverExpires)
           ELSE /\ tv' = [tv EXCEPT ![t] = value.expiresAt]
                /\ pc' = [pc EXCEPT ![t] = "ttl_diff"]
                /\ UNCHANGED <<sd, ret, gone>>
    /\ HistRead(t, call[t].key)
    /\ UNCHANGED <<data, writer, call, conn, clock, janitor, stale>>

\* diff := time.Until(value.expiresAt), read from the clock after the unlock
TTLDiff(t) ==
    /\ pc[t] = "ttl_diff"
    /\ LET diff == Until(tv[t], now)
       IN  IF IsExpired(diff)
           THEN /\ pc' = [pc EXCEPT ![t] = "ttl_lock"]
                /\ tv' = [tv EXCEPT ![t] = ZeroTime]
                /\ UNCHANGED <<sd, ret, gone>>
           ELSE TTLFinish(t, RemainingSeconds(diff))
    /\ UNCHANGED <<store, call, conn, clock, janitor, hist, stale>>

TTLLock(t) == Lock(t, "ttl_lock", "ttl_delete")

\* delete(s.data, key) under the exclusive lock, return "-1"
TTLDelete(t) ==
    /\ pc[t] = "ttl_delete"
    /\ writer = t
    /\ data' = TTLDeleteEffect(data, call[t].key)
    /\ writer' = NoOne
    /\ TTLFinish(t, MinusOne)
    /\ HistRead(t, call[t].key)
    /\ UNCHANGED <<readers, call, conn, clock, janitor, stale>>

\* ------------------------------------------------------------------- Get
GetRLock(t) == RLock(t, "get_rlock", "get_read")

\* The read under the shared lock and the unlock; a present key goes on to TTL.
GetRead(t) ==
    /\ pc[t] = "get_read"
    /\ t \in readers
    /\ readers' = readers \ {t}
    /\ LET storeData == Lookup(data, call[t].key)
       IN  IF ~storeData.ok
           THEN Finish(t, ErrNotExist)
           ELSE /\ sd' = [sd EXCEPT ![t] = storeData.value]
                /\ pc' = [pc EXCEPT ![t] = "ttl_rlock"]
                /\ UNCHANGED <<tv, ret>>
    /\ HistRead(t, call[t].key)
    /\ HistGetRead(t, Lookup(data, call[t].key))
    /\ UNCHANGED <<data, writer, call, conn, clock, janitor, gone>>

\* ------------------------------------------------------------------- Del
Void == ""

DelLock(t) == Lock(t, "del_lock", "del_body")

DelBody(t) ==
    /\ pc[t] = "del_body"
    /\ writer = t
    /\ data' = DelEffect(data, call[t].key)
    /\ writer' = NoOne
    /\ Finish(t, Void)
    /\ HistDisturb(call[t].key)
    /\ gone' = [gone EXCEPT ![call[t].key] = @ \cup {"del"}]
    /\ UNCHANGED <<readers, call, conn, clock, janitor, stale>>

\* ---------------------------------------------------------------- Exists
True == "true"
False == "false"

ExistsLock(t) == Lock(t, "exists_lock", "exists_body")

\* (mutant) an Exists that takes an entry past its expiration for absent
ExistsResultChecked(d, k) ==
    IF /\ Lookup(d, k).ok
       /\ (IsZero(Lookup(d, k).expiresAt) \/ Lookup(d, k).expiresAt > now)
    THEN True
    ELSE False

\* _, exists := s.data[key]
ExistsResult(d, k) == IF Lookup(d, k).ok THEN True ELSE False

ExistsBody(t) ==
    /\ pc[t] = "exists_body"
    /\ writer = t
    /\ writer' = NoOne
    /\ Finish(t, ExistsResult(data, call[t].key))
    /\ HistRead(t, call[t].key)
    /\ UNCHANGED <<data, readers, call, conn, clock, janitor, gone, stale>>

\* --------------------------------------------------------------- Janitor
\* for range ticker.C, then cleanup's now := time.Now()
JanitorNow ==
    /\ jpc = "wait"
    /\ tick
    /\ tick' = FALSE
    /\ jnow' = now
    /\ jpc' = "lock"
    /\ UNCHANGED <<now, store, pc, call, locals, ret, conn, history>>

JanitorLock ==
    /\ jpc = "lock"
    /\ CanLock
    /\ writer' = Janitor
    /\ jpc' = "sweep"
    /\ UNCHANGED <<data, readers, pc, call, locals, ret, conn, clock, jnow, history>>

\* cleanup's loop and the deferred unlock
JanitorSweep ==
    /\ jpc = "sweep"
    /\ writer = Janitor
    /\ data' = Sweep(data, jnow)
    /\ writer' = NoOne
    /\ jpc' = "wait"
    /\ jnow' = ZeroTime
    /\ UNCHANGED <<readers, pc, call, locals, ret, conn, clock, history>>

\* ----------------------------------------------------------------- clock
\* d ticks pass, up to the horizon; the ticker fires every JanitorSeconds and
\* its channel holds one tick.
Advance(d, horizon) ==
    /\ now + d <= StartTime + Seconds(horizon)
    /\ now' = now + d
    /\ tick' = (tick \/ \E x \in (now + 1)..(now + d) : IsTickTime(x))
    /\ UNCHANGED <<store, pc, call, locals, ret, conn, janitor, history>>

\* One tick passes.
Tick == Advance(1, SeqSeconds)

\* One second passes.
TickSecond == Advance(TicksPerSecond, MaxSeconds)

\* One second passes, and the janitor has served every tick of the ticker.
TickTimely ==
    /\ ~tick
    /\ jpc = "wait"
    /\ Advance(TicksPerSecond, LongSeconds)

\* ------------------------------------------------------------------ Spec
StoreStep(t) ==
    \/ SetLock(t) \/ SetWrite(t)
    \/ ExpireLock(t) \/ ExpireBody(t)
    \/ GetRLock(t) \/ GetRead(t)
    \/ TTLRLock(t) \/ TTLRead(t) \/ TTLDiff(t) \/ TTLLock(t) \/ TTLDelete(t)
    \/ DelLock(t) \/ DelBody(t)
    \/ ExistsLock(t) \/ ExistsBody(t)

JanitorStep == JanitorNow \/ JanitorLock \/ JanitorSweep

\* Concurrent clients of the Store on the shared keys, the janitor and the clock.
Next ==
    \/ \E t \in Tasks : Call(t, SharedKeys) \/ StoreStep(t) \/ Return(t)
    \/ JanitorStep
    \/ TickSecond

Spec == Init /\ [][Next]_vars

\* The same, with a janitor that serves every tick before time goes on.
NextTimely ==
    \/ \E t \in Tasks : Call(t, SharedKeys) \/ StoreStep(t) \/ Return(t)
    \/ JanitorStep
    \/ TickTimely

SpecTimely == Init /\ [][NextTimely]_vars


\* One client that calls the Store's operations on every key, one at a time,
\* the janitor, and the clock in single ticks.
MainTask == TaskNames[1]

NextSeq ==
    \/ Call(MainTask, Keys)
    \/ StoreStep(MainTask)
    \/ Return(MainTask)
    \/ JanitorStep
    \/ Tick

SpecSeq == Init /\ [][NextSeq]_vars

\* ------------------------------------------------ concurrent Sets, then Gets
\* Each task has a key of its own.
OwnKey(t) == KeyNames[CHOOSE i \in 1..NumTasks : TaskNames[i] = t]

OwnKeys == {OwnKey(t) : t \in Tasks}

SetPcs == {"set_lock", "set_write", "expire_lock", "expire_body"}

\* Every task's Set of its own key has returned.
SetsComplete == \A u \in Tasks : hist[OwnKey(u)].by = u /\ pc[u] \notin SetPcs

\* Task t calls Set on its own key, once.
CallSetOwn(t) ==
    /\ pc[t] = "idle"
    /\ hist[OwnKey(t)].by # t
    /\ \E v \in Vals :
        call' = [call EXCEPT ![t] = [op |-> "Set", key |-> OwnKey(t), val |-> v, secs |-> 0]]
    /\ pc' = [pc EXCEPT ![t] = FirstPc("Set")]
    /\ UNCHANGED <<store, locals, ret, conn, clock, janitor, history>>

\* Once all the Sets have returned, the tasks call Get on any of the keys.
CallGetAfter(t) ==
    /\ pc[t] = "idle"
    /\ SetsComplete
    /\ \E k \in OwnKeys :
        LET c == [op |-> "Get", key |-> k, val |-> "", secs |-> 0]
        IN  /\ call' = [call EXCEPT ![t] = c]
            /\ HistCall(t, c)
    /\ pc' = [pc EXCEPT ![t] = FirstPc("Get")]
    /\ UNCHANGED <<store, locals, ret, conn, clock, janitor, gone, stale>>

NextSets ==
    \/ \E t \in Tasks :
        \/ CallSetOwn(t) \/ CallGetAfter(t)
        \/ SetLock(t) \/ SetWrite(t) \/ ExpireLock(t) \/ ExpireBody(t)
        \/ GetRLock(t) \/ GetRead(t)
        \/ TTLRLock(t) \/ TTLRead(t) \/ TTLDiff(t) \/ TTLLock(t) \/ TTLDelete(t)
        \/ Return(t)
    \/ JanitorStep
    \/ TickSecond

SpecSets == Init /\ [][NextSets]_vars

\* --------------------------------------------------------------- Execute
Pong == "PONG"
Yes == "Yes"
No == "No"
ErrUnknown == "ERR unknown command"
ErrNoProperty == "ERR property doesn't exist in store"
ErrArgsSet == "ERR wrong number of arguments for 'set' command"
ErrArgsGet == "ERR wrong number of arguments for 'get' command"
ErrArgsDel == "ERR wrong number of arguments for 'del' command"
ErrArgsExists == "ERR wrong number of arguments for 'exists' command"

\* The verbs a client sends, already in upper case; "BOGUS" is no command.
Commands == {"PING", "SET", "GET", "DEL", "EXISTS", "BOGUS"}

\* The argument lists a client sends: a key, then values.
ArgLists ==
    UNION {{a \in [1..n -> Keys \cup Vals] :
                \A i \in 1..n : IF i = 1 THEN a[i] \in Keys ELSE a[i] \in Vals}
           : n \in 0..MaxArgs}

Answer(r) == [reply |-> r, call |-> NoCall]

Invoke(op, k, v) == [reply |-> NoRet, call |-> [op |-> op, key |-> k, val |-> v, secs |-> 0]]

\* (mutant) GET checks its arguments against SET's count
ExecuteDispatchGetTwo(command, args) ==
    CASE command = "PING" -> Answer(Pong)
      [] command = "SET" ->
            IF Len(args) # 2 THEN Answer(ErrArgsSet)
            ELSE Invoke("Set", args[1], args[2])
      [] command = "GET" ->
            IF Len(args) # 2 THEN Answer(ErrArgsGet)
            ELSE Invoke("Get", args[1], "")
      [] command = "DEL" ->
            IF Len(args) # 1 THEN Answer(ErrArgsDel)
            ELSE Invoke("Del", args[1], "")
      [] command = "EXISTS" ->
            IF Len(args) # 1 THEN Answer(ErrArgsExists)
            ELSE Invoke("Exists", args[1], "")
      [] OTHER -> Answer(ErrUnknown)

\* Execute's switch: either a response at once, or a call of the Store.
ExecuteDispatch(command, args) ==
    CASE command = "PING" -> Answer(Pong)
      [] command = "SET" ->
            IF Len(args) # 2 THEN Answer(ErrArgsSet)
            ELSE Invoke("Set", args[1], args[2])
      [] command = "GET" ->
            IF Len(args) # 1 THEN Answer(ErrArgsGet)
            ELSE Invoke("Get", args[1], "")
      [] command = "DEL" ->
            IF Len(args) # 1 THEN Answer(ErrArgsDel)
            ELSE Invoke("Del", args[1], "")
      [] command = "EXISTS" ->
            IF Len(args) # 1 THEN Answer(ErrArgsExists)
            ELSE Invoke("Exists", args[1], "")
      [] OTHER -> Answer(ErrUnknown)

\* What Execute makes of the Store's result.
ExecuteRender(command, r) ==
    CASE command = "SET" -> OK
      [] command = "GET" -> IF r = "" THEN ErrNoProperty ELSE r
      [] command = "DEL" -> OK
      [] command = "EXISTS" -> IF r = True THEN Yes ELSE No
      [] OTHER -> ErrUnknown

\* handleConnection reads a line and calls Execute, which answers or calls the Store.
Handle(t) ==
    /\ pc[t] = "idle"
    /\ \E command \in Commands, args \in ArgLists :
        LET x == ExecuteDispatch(command, args)
        IN  /\ req' = [req EXCEPT ![t] = [cmd |-> command, args |-> args]]
            /\ IF x.call = NoCall
               THEN /\ resp' = [resp EXCEPT ![t] = x.reply]
                    /\ pc' = [pc EXCEPT ![t] = "reply"]
                    /\ UNCHANGED <<call, hist>>
               ELSE /\ call' = [call EXCEPT ![t] = x.call]
                    /\ pc' = [pc EXCEPT ![t] = FirstPc(x.call.op)]
                    /\ HistCall(t, x.call)
                    /\ UNCHANGED resp
    /\ UNCHANGED <<store, locals, ret, clock, janitor, gone, stale>>

\* The Store's call has returned: Execute returns its response.
ExecuteReturn(t) ==
    /\ pc[t] = "done"
    /\ req[t] # NoReq
    /\ resp' = [resp EXCEPT ![t] = ExecuteRender(req[t].cmd, ret[t])]
    /\ pc' = [pc EXCEPT ![t] = "reply"]
    /\ call' = [call EXCEPT ![t] = NoCall]
    /\ ret' = [ret EXCEPT ![t] = NoRet]
    /\ HistLeave(t)
    /\ stale' = [stale EXCEPT ![t] = FALSE]
    /\ UNCHANGED <<store, locals, req, clock, janitor, gone>>

\* fmt.Fprintln(conn, resp), and back to reading the next line
Reply(t) ==
    /\ pc[t] = "reply"
    /\ pc' = [pc EXCEPT ![t] = "idle"]
    /\ req' = [req EXCEPT ![t] = NoReq]
    /\ resp' = [resp EXCEPT ![t] = NoRet]
    /\ UNCHANGED <<store, call, locals, ret, clock, janitor, history>>

\* One connection, the janitor and the clock.
NextExec ==
    \/ Handle(MainTask)
    \/ StoreStep(MainTask)
    \/ ExecuteReturn(MainTask)
    \/ Reply(MainTask)
    \/ JanitorStep
    \/ TickSecond

SpecExec == Init /\ [][NextExec]_vars

\* ------------------------------------------------------- fair scheduling
\* sync.RWMutex in full: Lock first announces the writer (one at a time) and
\* then waits for the active readers to leave; while a writer is announced or
\* holds the lock, RLock blocks.
ExclusiveRequestPcs == {"set_lock", "expire_lock", "ttl_lock", "del_lock", "exists_lock"}

\* Where a task is once its Lock call has announced it.
Pending(p) == p \o "_pending"

PendingPcs == {Pending(p) : p \in ExclusiveRequestPcs}

\* The critical section a Lock call leads to.
AfterLock(p) ==
    CASE p = "set_lock" -> "set_write"
      [] p = "expire_lock" -> "expire_body"
      [] p = "ttl_lock" -> "ttl_delete"
      [] p = "del_lock" -> "del_body"
      [] p = "exists_lock" -> "exists_body"

WriterPending == jpc = "pending" \/ \E u \in Tasks : pc[u] \in PendingPcs

\* s.mu.Lock(), first half: the writer is announced.
LockCall(t) ==
    /\ pc[t] \in ExclusiveRequestPcs
    /\ writer = NoOne
    /\ ~WriterPending
    /\ pc' = [pc EXCEPT ![t] = Pending(pc[t])]
    /\ UNCHANGED <<store, call, locals, ret, conn, clock, janitor, history>>

\* s.mu.Lock(), second half: the readers have left.
LockGranted(t) == \E p \in ExclusiveRequestPcs : Lock(t, Pending(p), AfterLock(p))

\* s.mu.RLock(), which waits while a writer is announced.
RLockAdmitted(t) == ~WriterPending /\ (GetRLock(t) \/ TTLRLock(t))

JanitorLockCall ==
    /\ jpc = "lock"
    /\ writer = NoOne
    /\ ~WriterPending
    /\ jpc' = "pending"
    /\ UNCHANGED <<store, pc, call, locals, ret, conn, clock, jnow, history>>

JanitorLockGranted ==
    /\ jpc = "pending"
    /\ CanLock
    /\ writer' = Janitor
    /\ jpc' = "sweep"
    /\ UNCHANGED <<data, readers, pc, call, locals, ret, conn, clock, jnow, history>>

\* The steps of task t's Store call.
FairStep(t) ==
    \/ LockCall(t) \/ LockGranted(t) \/ RLockAdmitted(t)
    \/ SetWrite(t) \/ ExpireBody(t)
    \/ GetRead(t)
    \/ TTLRead(t) \/ TTLDiff(t) \/ TTLDelete(t)
    \/ DelBody(t)
    \/ ExistsBody(t)

FairJanitorStep == JanitorNow \/ JanitorLockCall \/ JanitorLockGranted \/ JanitorSweep

\* The time up to the ticker's first tick passes at once.
TickInterval == Advance(Seconds(JanitorSeconds), JanitorSeconds)

NextFair ==
    \/ \E t \in Tasks : Call(t, SharedKeys) \/ FairStep(t) \/ Return(t)
    \/ FairJanitorStep
    \/ TickInterval

\* Every goroutine that can run does run, and a goroutine waiting for the
\* RWMutex gets it: the announced writer keeps new readers out, and the mutex
\* hands over to a starving waiter.
Fairness ==
    /\ \A t \in Tasks : SF_vars(FairStep(t))
    /\ SF_vars(FairJanitorStep)

SpecFair == Init /\ [][NextFair]_vars /\ Fairness

\* ------------------------------------------------- the inline-TTL variant
\* The earlier Store: Set stores the expiration (field ttl, here expiresAt)
\* together with the value, Get checks it itself, and there is neither Expire,
\* TTL nor a janitor.  Del and Exists are those of the Store above.
InlineCalls(K) ==
    {[op |-> "Set", key |-> k, val |-> v, secs |-> 0] : k \in K, v \in Vals}
    \cup {[op |-> o, key |-> k, val |-> "", secs |-> 0] :
            o \in {"Get", "Del", "Exists"}, k \in K}

InlineFirstPc(op) ==
    CASE op = "Set" -> "iset_lock"
      [] op = "Get" -> "iget_rlock"
      [] op = "Del" -> "del_lock"
      [] op = "Exists" -> "exists_lock"

\* The process has died of a runtime fatal error.
Fatal == [t \in Tasks |-> "fatal"]

CallInline(t, K) ==
    /\ pc[t] = "idle"
    /\ \E c \in InlineCalls(K) :
        /\ call' = [call EXCEPT ![t] = c]
        /\ pc' = [pc EXCEPT ![t] = InlineFirstPc(c.op)]
    /\ UNCHANGED <<store, locals, ret, conn, clock, janitor, history>>

\* StoreData{value: value, ttl: time.Now().Add(time.Millisecond * 5000)}
InlineSetEffect(d, k, v, t) == MapPut(d, k, StoreData(v, t + Seconds(DefaultTTLSeconds)))

InlineSetLock(t) == Lock(t, "iset_lock", "iset_write")

\* The write and the deferred unlock.
InlineSetWrite(t) ==
    /\ pc[t] = "iset_write"
    /\ writer = t
    /\ data' = InlineSetEffect(data, call[t].key, call[t].val, now)
    /\ writer' = NoOne
    /\ Finish(t, Void)
    /\ UNCHANGED <<readers, call, conn, clock, janitor, history>>

InlineGetRLock(t) == RLock(t, "iget_rlock", "iget_read")

\* Get's test: time.Now().After(storeData.ttl)
InlineIsExpired(e, t) == t > e

\* The read under the shared lock; the two returns that delete nothing run the
\* deferred RUnlock, an expired entry goes on to the delete with the shared
\* lock still held.
InlineGetRead(t) ==
    /\ pc[t] = "iget_read"
    /\ t \in readers
    /\ LET storeData == Lookup(data, call[t].key)
       IN  IF ~storeData.ok
           THEN /\ Finish(t, ErrNotExist)
                /\ readers' = readers \ {t}
           ELSE IF InlineIsExpired(storeData.expiresAt, now)
           THEN /\ pc' = [pc EXCEPT ![t] = "iget_delete"]
                /\ UNCHANGED <<readers, locals, ret>>
           ELSE /\ Finish(t, storeData.value)
                /\ readers' = readers \ {t}
    /\ UNCHANGED <<data, writer, call, conn, clock, janitor, history>>

\* The tasks other than t that are accessing the map under the shared lock.
InlineRacing(t) == {u \in Tasks \ {t} : pc[u] \in {"iget_read", "iget_delete"}}

\* What an unsynchronised delete(s.data, key) can leave of the map when it
\* races with another access: the map without k, or any part of that.
InlineRacyMaps(d, k) ==
    {[x \in K |-> d[x]] : K \in SUBSET (DOMAIN d \ {k})}

\* delete(s.data, key) with only the shared lock held, return "ERR data expired"
\* and the deferred RUnlock.  Alone in the map the delete is an ordinary one; in a
\* race with another reader it is a data race on the map: the delete may work,
\* the map may be damaged, or the runtime ends the process ("concurrent map
\* writes", "concurrent map read and map write").
InlineGetDelete(t) ==
    /\ pc[t] = "iget_delete"
    /\ t \in readers
    /\ \/ /\ data' = MapDelete(data, call[t].key)
          /\ Finish(t, ErrExpired)
          /\ readers' = readers \ {t}
       \/ /\ InlineRacing(t) # {}
          /\ data' \in InlineRacyMaps(data, call[t].key)
          /\ Finish(t, ErrExpired)
          /\ readers' = readers \ {t}
       \/ /\ InlineRacing(t) # {}
          /\ pc' = Fatal
          /\ UNCHANGED <<data, readers, locals, ret>>
    /\ UNCHANGED <<writer, call, conn, clock, janitor, history>>

\* Concurrent clients of the inline-TTL Store on every key, and the clock.
NextInline ==
    \/ \E t \in Tasks :
        \/ CallInline(t, Keys)
        \/ InlineSetLock(t) \/ InlineSetWrite(t)
        \/ InlineGetRLock(t) \/ InlineGetRead(t) \/ InlineGetDelete(t)
        \/ DelLock(t) \/ DelBody(t)
        \/ ExistsLock(t) \/ ExistsBody(t)
        \/ Return(t)
    \/ TickSecond

SpecInline == Init /\ [][NextInline]_vars

\* ================================================================ claims
GetDone(t) == pc[t] = "done" /\ call[t].op = "Get"

\* C1: when a task calls Set(k, v) and then Get(k) before the default TTL has
\* elapsed since the Set, with no other task's Set/Del/Expire on k in between
\* (the janitor running), Get(k) returns v.
C1_SetThenGetReturnsValue ==
    \A t \in Tasks :
        (/\ GetDone(t)
         /\ hist[call[t].key].by = t
         /\ hist[call[t].key].touch # "write"
         /\ ~IsZero(hist[call[t].key].exp)
         /\ now < hist[call[t].key].exp)
        => ret[t] = hist[call[t].key].val

\* C2: for a key written by Set with the default TTL and not touched afterwards,
\* the first Get issued after the TTL has elapsed signals Expired, the janitor
\* running concurrently.
C2_FirstGetAfterTTLSignalsExpired ==
    \A t \in Tasks :
        (GetDone(t) /\ hist[call[t].key].touch = t) => ret[t] = ErrExpired

\* C3: after a Get(k) has signalled Expired, a Get(k) that reads the table with no
\* Set(k) write in between signals NotFound, never Expired again.
C3_ExpiredThenNotFound ==
    [][\A t \in Tasks :
          (/\ pc[t] = "get_read"
           /\ "expired" \in gone[call[t].key]
           /\ pc'[t] # pc[t])
          => (pc'[t] = "done" /\ ret'[t] = ErrNotExist)]_vars

C3_Witness ==
    \E t \in Tasks :
        /\ GetDone(t)
        /\ ret[t] = ErrNotExist
        /\ gone[call[t].key] = {"expired"}

\* C4: after a Del(k), a Get(k) that reads the table with no Set(k) write in
\* between signals NotFound, whatever k was before the Del; and a Del of an
\* absent key leaves the table unchanged.
C4_DelThenNotFound ==
    [][\A t \in Tasks :
          /\ (/\ pc[t] = "get_read"
              /\ "del" \in gone[call[t].key]
              /\ pc'[t] # pc[t])
             => (pc'[t] = "done" /\ ret'[t] = ErrNotExist)
          /\ (/\ pc[t] = "del_body"
              /\ pc'[t] # pc[t]
              /\ call[t].key \notin DOMAIN data)
             => data' = data]_vars

C4_Witness ==
    \E t \in Tasks :
        /\ GetDone(t)
        /\ ret[t] = ErrNotExist
        /\ gone[call[t].key] = {"del"}
        /\ hist[call[t].key].touch = "write"

C7_SetEntryNeverWithoutExpiry ==
    \A t \in Tasks :
        (pc[t] = "done" /\ call[t].op = "TTL") => ret[t] # NeverExpires

\* C5: concurrent Sets on pairwise distinct keys lose no update: once all of
\* them have returned, a Get(k_i) that returns before the default TTL has
\* elapsed returns v_i.
C5_ConcurrentSetsKeepEveryValue ==
    \A t \in Tasks :
        (/\ GetDone(t)
         /\ SetsComplete
         /\ now < hist[call[t].key].exp)
        => ret[t] = hist[call[t].key].val

C5_Witness ==
    /\ SetsComplete
    /\ {call[t].key : t \in Tasks} = OwnKeys
    /\ \A t \in Tasks :
        /\ GetDone(t)
        /\ now < hist[call[t].key].exp
        /\ ret[t] = hist[call[t].key].val

\* The command table of the specification: verb, expected argument count and the
\* error that names the command.
C8_Arity(command) ==
    CASE command = "PING" -> 0
      [] command = "SET" -> 2
      [] OTHER -> 1

C8_ArityError(command) ==
    CASE command = "PING" -> "ERR wrong number of arguments for 'ping' command"
      [] command = "SET" -> "ERR wrong number of arguments for 'set' command"
      [] command = "GET" -> "ERR wrong number of arguments for 'get' command"
      [] command = "DEL" -> "ERR wrong number of arguments for 'del' command"
      [] command = "EXISTS" -> "ERR wrong number of arguments for 'exists' command"

\* Execute, invoked by t in this step with a verb of V and a wrong number of
\* arguments, answers the error at once and neither calls nor changes the Store.
C8_Rejects(t, V) ==
    (/\ pc[t] = "idle"
     /\ pc'[t] # "idle"
     /\ req'[t].cmd \in V
     /\ Len(req'[t].args) # C8_Arity(req'[t].cmd))
    => (/\ pc'[t] = "reply"
        /\ resp'[t] = C8_ArityError(req'[t].cmd)
        /\ call'[t] = NoCall
        /\ data' = data)

\* C8 (as claimed): for every verb of the table, PING included, Execute with any
\* other number of arguments returns the error naming the command and does not
\* call the Store.
C8_WrongArityRejectedForEveryVerb ==
    [][\A t \in Tasks : C8_Rejects(t, {"PING", "SET", "GET", "DEL", "EXISTS"})]_vars

\* C8 (amended): for SET, GET, DEL and EXISTS, Execute with any other number of
\* arguments returns the error naming the command and does not call the Store;
\* PING answers PONG whatever its arguments, without calling the Store.
C8_WrongArityRejected ==
    [][\A t \in Tasks :
          /\ C8_Rejects(t, {"SET", "GET", "DEL", "EXISTS"})
          /\ (pc[t] = "idle" /\ pc'[t] # "idle" /\ req'[t].cmd = "PING")
             => (/\ pc'[t] = "reply"
                 /\ resp'[t] = Pong
                 /\ call'[t] = NoCall
                 /\ data' = data)]_vars

C8_Witness ==
    \E t \in Tasks :
        /\ pc[t] = "reply"
        /\ req[t].cmd = "SET"
        /\ Len(req[t].args) = 1
        /\ resp[t] = ErrArgsSet

\* C9: Execute leaves the table unchanged when it answers PING, an unknown verb
\* or a wrong arity; every step of SET, DEL and EXISTS leaves the entry of every
\* key other than its first argument unchanged.
C9_ExecuteFrame ==
    [][\A t \in Tasks :
          (pc'[t] # pc[t]) =>
            /\ (pc[t] = "idle" /\ pc'[t] = "reply") => data' = data
            /\ LET r == IF pc[t] = "idle" THEN req'[t] ELSE req[t]
               IN  (r.cmd \in {"SET", "DEL", "EXISTS"} /\ Len(r.args) >= 1)
                   => \A k \in Keys \ {r.args[1]} : Lookup(data', k) = Lookup(data, k)]_vars

C9_Witness ==
    \E t \in Tasks :
        /\ pc[t] = "reply"
        /\ req[t].cmd = "DEL"
        /\ resp[t] = OK
        /\ "del" \in gone[req[t].args[1]]
        /\ \E k \in DOMAIN data : k # req[t].args[1]

\* C10: Expire(k, seconds) on an absent key signals NotFound and leaves the table
\* unchanged; on a present key it returns OK and sets expiresAt to the time of
\* the call plus seconds, the value and every other key unchanged.
C10_Expire ==
    [][\A t \in Tasks :
          (pc[t] = "expire_body" /\ pc'[t] = "done" /\ call[t].op = "Expire") =>
            IF call[t].key \notin DOMAIN data
            THEN ret'[t] = ErrNotFound /\ data' = data
            ELSE /\ ret'[t] = OK
                 /\ data' = [data EXCEPT ![call[t].key].expiresAt =
                                            now + Seconds(call[t].secs)]]_vars

C10_Witness ==
    \E t \in Tasks :
        /\ pc[t] = "done"
        /\ call[t].op = "Expire"
        /\ call[t].secs = 1
        /\ ret[t] = OK
        /\ data[call[t].key].expiresAt = now + Seconds(1)
        /\ \E k \in DOMAIN data : k # call[t].key

\* C11: Exists(k) returns true exactly when k is a key of the table while Exists
\* holds the lock, whatever the entry's expiresAt, and no step of Exists changes
\* the table.
C11_ExistsRawPresence ==
    [][\A t \in Tasks :
          /\ (pc[t] = "exists_lock" /\ pc'[t] # pc[t]) => data' = data
          /\ (pc[t] = "exists_body" /\ pc'[t] # pc[t])
             => (/\ pc'[t] = "done"
                 /\ ret'[t] = (IF call[t].key \in DOMAIN data THEN True ELSE False)
                 /\ data' = data)]_vars

\* Exists has answered true for an entry that is past its expiration.
C11_Witness ==
    \E t \in Tasks :
        /\ pc[t] = "done"
        /\ call[t].op = "Exists"
        /\ ret[t] = True
        /\ call[t].key \in DOMAIN data
        /\ ~IsZero(data[call[t].key].expiresAt)
        /\ data[call[t].key].expiresAt <= now

\* C12: TTL(k) returns "-1" for an absent key and "Data never expires" for a key
\* with expiresAt unset, the table unchanged in both cases; for a key it read with
\* expiresAt - now <= 0 it goes on to the deletion, which removes k and returns "-1".
C12_TTLSentinels ==
    [][\A t \in Tasks :
          (call[t].op = "TTL" /\ pc'[t] # pc[t]) =>
            LET k == call[t].key
            IN  /\ (pc[t] = "ttl_read" /\ k \notin DOMAIN data)
                   => (pc'[t] = "done" /\ ret'[t] = MinusOne /\ data' = data)
                /\ (pc[t] = "ttl_read" /\ k \in DOMAIN data)
                   => IF IsZero(data[k].expiresAt)
                      THEN pc'[t] = "done" /\ ret'[t] = NeverExpires /\ data' = data
                      ELSE pc'[t] = "ttl_diff" /\ data' = data
                /\ (pc[t] = "ttl_diff" /\ tv[t] - now <= 0) => pc'[t] = "ttl_lock"
                /\ (pc[t] = "ttl_diff" /\ tv[t] - now > 0)
                   => (pc'[t] = "done" /\ ret'[t] \notin {MinusOne, NeverExpires})
                /\ (pc[t] = "ttl_delete")
                   => (pc'[t] = "done" /\ ret'[t] = MinusOne /\ k \notin DOMAIN data')]_vars

\* TTL has answered "-1" at the expiration instant of an entry that only TTL
\* calls have accessed: no Del, no Get that signalled Expired, and the sweep
\* keeps an entry at its expiration instant, so a TTL call removed it.
C12_Witness ==
    \E t \in Tasks :
        /\ pc[t] = "done"
        /\ call[t].op = "TTL"
        /\ ret[t] = MinusOne
        /\ call[t].key \notin DOMAIN data
        /\ hist[call[t].key].by # NoOne
        /\ hist[call[t].key].exp = now
        /\ hist[call[t].key].touch = "read"
        /\ gone[call[t].key] = {}

\* C13: for a live key (present, expiresAt set, now < expiresAt when TTL reads the
\* clock) TTL(k) returns a strictly positive whole number of seconds.  (The
\* claim's second half, that successive results do not increase, is not needed
\* to refute it.)
C13_LiveTTLPositive ==
    \A t \in Tasks :
        (/\ pc[t] = "done"
         /\ call[t].op = "TTL"
         /\ ret[t] \notin {MinusOne, NeverExpires})
        => ret[t] \in {ToString(n) : n \in 1..DefaultTTLSeconds}

\* C14: the deletion that TTL (called directly or by Get) performs under the
\* exclusive lock removes k only if k is, at that moment, still expired; an
\* entry refreshed by Set or Expire since the shared-lock read is not removed.
C14_LazyDeleteRevalidates ==
    [][\A t \in Tasks :
          (/\ pc[t] = "ttl_delete"
           /\ pc'[t] # pc[t]
           /\ call[t].key \in DOMAIN data
           /\ call[t].key \notin DOMAIN data')
          => (/\ ~IsZero(data[call[t].key].expiresAt)
              /\ data[call[t].key].expiresAt <= now)]_vars

\* C16: one sweep pass removes exactly the entries whose expiresAt is set and
\* <= the pass's now (the expiration instant included) and leaves the others
\* unchanged.
C16_SweepInclusive ==
    [][(jpc = "sweep" /\ jpc' # jpc) =>
          data' = [k \in {x \in DOMAIN data :
                            IsZero(data[x].expiresAt) \/ data[x].expiresAt > jnow}
                     |-> data[k]]]_vars

\* C17: every change of the table is made by the holder of the exclusive lock,
\* in a step of its own; whoever is inside an exclusive section is the holder,
\* whoever is inside a shared section is among the readers; and the exclusive
\* lock is never held together with a shared one.
C17_LockDiscipline ==
    [][/\ writer # NoOne => readers = {}
       /\ writer' # NoOne => readers' = {}
       /\ \A t \in Tasks :
            /\ pc[t] \in ExclusivePcs <=> writer = t
            /\ pc[t] \in SharedPcs <=> t \in readers
       /\ jpc = "sweep" <=> writer = Janitor
       /\ data' # data =>
            /\ writer # NoOne
            /\ readers = {}
            /\ jpc' # jpc <=> writer = Janitor
            /\ \A t \in Tasks : pc'[t] # pc[t] <=> writer = t]_vars

\* A task deletes under the exclusive lock while another waits for the lock.
C17_Witness ==
    \E t \in Tasks, u \in Tasks :
        /\ t # u
        /\ writer = t
        /\ pc[t] = "ttl_delete"
        /\ call[t].key \in DOMAIN data
        /\ pc[u] \in LockRequestPcs

\* C20: for one entry written by one Set, at most one Get signals Expired, and a
\* Get signals Expired only from the deletion its own TTL decided on after
\* reading the entry present and expired, never for a key it found removed.
C20_OneExpiredSignal ==
    [][\A t \in Tasks :
          (/\ call[t].op = "Get"
           /\ pc[t] # "done"
           /\ pc'[t] = "done"
           /\ ret'[t] = ErrExpired)
          => (/\ "expired" \notin gone[call[t].key]
              /\ pc[t] = "ttl_delete")]_vars

\* C15: a Get that read, under the shared lock, an entry already past its
\* expiration (expiresAt set and now >= expiresAt at the read) does not return
\* that entry's value, whatever other tasks do before the Get finishes.
C15_GetNeverReturnsDeadValue ==
    \A t \in Tasks : (GetDone(t) /\ stale[t]) => ret[t] \notin Vals

\* C18: in the inline-TTL variant no task deletes from the map while holding only
\* the shared lock, and two Gets are never both at their delete at once.
C18_InlineGetDeletesExclusively ==
    \A t \in Tasks :
        pc[t] = "iget_delete" =>
            /\ writer = t
            /\ \A u \in Tasks \ {t} : pc[u] # "iget_delete"

\* C19: under fair scheduling every started operation and every sweep completes;
\* a task that requests or waits for a lock, is idle or has returned holds no
\* lock (so no operation asks for the exclusive lock while holding the shared
\* one); and a task inside a critical section or between two of them can always
\* take its next step.
C19_DeadlockFree ==
    /\ [](\A t \in Tasks :
            /\ pc[t] \in LockRequestPcs \cup PendingPcs \cup {"idle", "done"}
               => (t \notin readers /\ writer # t)
            /\ pc[t] \in ExclusivePcs \cup SharedPcs \cup {"ttl_diff"}
               => ENABLED FairStep(t))
    /\ \A t \in Tasks : (pc[t] # "idle") ~> (pc[t] = "done")
    /\ (jpc # "wait") ~> (jpc = "wait" /\ writer # Janitor)

\* Two concurrent operations on one key have both completed, one of them through
\* the deletion under the exclusive lock, and no lock is held.
C19_Witness ==
    \E t \in Tasks, u \in Tasks :
        /\ t # u
        /\ GetDone(t)
        /\ ret[t] = ErrExpired
        /\ call[t].key \notin DOMAIN data
        /\ pc[u] = "done"
        /\ call[u].op = "Set"
        /\ call[u].key = call[t].key
        /\ writer = NoOne
        /\ readers = {}

\* The entry e is past its expiration at the instant t.
C21_Dead(e, t) == ~IsZero(e.expiresAt) /\ e.expiresAt <= t

\* C21: an entry whose expiration instant has passed stays dead until it is
\* removed: the only step that leaves k with an entry a Get would read as live is
\* the write of a new Set(k); an Expire(k, s) on the expired entry does not make
\* it readable again.
C21_DeadStaysDead ==
    [][\A k \in Keys :
          (/\ k \in DOMAIN data
           /\ C21_Dead(data[k], now)
           /\ k \in DOMAIN data'
           /\ ~C21_Dead(data'[k], now'))
          => \E t \in Tasks :
                /\ pc[t] = "set_write"
                /\ call[t].key = k
                /\ pc'[t] # pc[t]]_vars

====
